---- MODULE Spec2Model ----
(***************************************************************************)
(* Reconciliation plus eviction: src/src/btree/rec_evict.c.                *)
(*                                                                         *)
(* The model is a step machine of __wt_rec_evict and the functions it      *)
(* calls, one action per shared-memory access (a load or store of a        *)
(* WT_REF's state or page, a hazard snapshot, a call of a collaborator),   *)
(* run by evictor sessions that interleave with each other and with        *)
(* reader sessions publishing hazard references.                           *)
(***************************************************************************)
EXTENDS Naturals, Sequences, FiniteSets

(***************************************************************************)
(* Bounds of the model.                                                    *)
(***************************************************************************)
\* Number of pages the reconciler may create by splitting (mod->u.split).
MaxSplit == 2

(***************************************************************************)
(* The tree.  Page 1 is the root; a WT_REF is named by the page it         *)
(* referenced at the start (ref 1 is the root page's own ref).             *)
(*                                                                         *)
(*            1            internal, root                                  *)
(*          /   \                                                          *)
(*         2     3         2 internal, 3 leaf                              *)
(*         |                                                               *)
(*         4               leaf                                            *)
(***************************************************************************)
NULL == 0

OrigPages == {1, 2, 3, 4}

NewPages == (Cardinality(OrigPages) + 1)..(Cardinality(OrigPages) + MaxSplit)

Pages == OrigPages \cup NewPages

Refs == OrigPages

\* WT_REF_FOREACH's order over the child slots of an internal page.  The
\* slots of a page built by a split all reference on-disk blocks (their
\* state is WT_REF_DISK and stays so), so they are not tracked.
Children(p) ==
    CASE p = 1 -> <<2, 3>>
      [] p = 2 -> <<4>>
      [] OTHER -> << >>

\* page->type: WT_PAGE_ROW_INT/WT_PAGE_COL_INT against the leaf types.
IsInternal(p) == p \in {1, 2} \cup NewPages

OrigParent(p) ==
    CASE p = 2 -> 1
      [] p = 3 -> 1
      [] p = 4 -> 2
      [] OTHER -> NULL

RootOrig == CHOOSE p \in OrigPages : OrigParent(p) = NULL

RECURSIVE Subtree(_)
\* The pages of the subtree below and including original page p.
Subtree(p) ==
    {p} \cup UNION {Subtree(Children(p)[i]) : i \in DOMAIN Children(p)}

RECURSIVE Ancestors(_)
Ancestors(p) ==
    IF OrigParent(p) = NULL THEN {}
    ELSE {OrigParent(p)} \cup Ancestors(OrigParent(p))

Evictors == {"e1", "e2"}

Readers == {"r1", "r2"}

RefStates == {"DISK", "MEM", "LOCKED", "READING"}

\* WT_PAGE_REC_MASK: the outcome of the page's last reconciliation.
RecFlags == {"NONE", "EMPTY", "REPLACE", "SPLIT", "SPLIT_MERGE"}

\* An address cookie and its size (WT_ADDR).
NullAddr == [addr |-> <<"null", 0>>, size |-> 0]

NoModify == [set |-> FALSE, replace |-> NullAddr, split |-> NULL]

VARIABLES
    refState,   \* [Refs -> RefStates]            WT_REF.state
    refPage,    \* [Refs -> Pages \cup {NULL}]    WT_REF.page
    refAddr,    \* [Refs -> WT_ADDR or a kind]    WT_REF.addr
    pg,         \* [Pages -> page record]         WT_PAGE
    btree,      \* root_page, root_addr, root_update
    hazard,     \* [Readers -> Pages \cup {NULL}] conn->hazard
    ev,         \* [Evictors -> evictor record]   a session in __wt_rec_evict
    rd,         \* [Readers -> reader record]     a session publishing a hazard
    log         \* history of collaborator calls (page_out, rec_write, ...)

vars == <<refState, refPage, refAddr, pg, btree, hazard, ev, rd, log>>

(***************************************************************************)
(* Values.                                                                 *)
(***************************************************************************)
\* The address a block already on disk has; inl says whether the cookie lies
\* inside the parent's page image (then __wt_off_page is false).
OldAddr(r, inl) == [addr |-> <<IF inl THEN "onpage" ELSE "offpage", r>>, size |-> r]

\* __wt_off_page(page->parent, addr): the cookie was allocated on its own.
wt_off_page(a) == a.addr[1] # "onpage"

\* The output of the n-th reconciliation that replaces a page 1-for-1.
RecAddr(n) == [addr |-> <<"rec", n>>, size |-> n + 1]

\* A page: F_ISSET(page, WT_PAGE_REC_MASK), __wt_page_is_modified(page),
\* page->modify, page->ref, page->parent, and whether the memory is
\* allocated ("none": not in memory, "live", "freed": after __wt_page_out).
PageRec(fl, dirty, r, par, m) ==
    [rec_flags |-> fl, modified |-> dirty,
     modify |-> [NoModify EXCEPT !.set = dirty \/ fl \notin {"NONE", "SPLIT_MERGE"},
                                 !.replace = IF fl = "REPLACE" THEN RecAddr(0)
                                             ELSE NullAddr],
     ref |-> r, parent |-> par, mem |-> m]

NoPage == PageRec("NONE", FALSE, NULL, NULL, "none")

\* WT_PAGE_IS_ROOT(page): page->parent == NULL.
WT_PAGE_IS_ROOT(p) == pg[p].parent = NULL

Idle == [pc |-> "off", page |-> NULL, flags |-> {}, last_page |-> NULL,
         ret |-> "none", stack |-> << >>, hxref |-> NULL, hxret |-> "none",
         cref |-> NULL, cpage |-> NULL, cur |-> NULL, after |-> "none",
         rpage |-> NULL, next |-> NULL, marker |-> NULL, droot |-> NULL,
         excl |-> {}, blocked |-> FALSE, pre |-> << >>, preaddr |-> << >>,
         prepage |-> NoPage, again |-> FALSE]

IdleReader == [pc |-> "idle", ref |-> NULL]

EmptyLog == [out |-> << >>, writes |-> << >>, bm_free |-> << >>,
             freed |-> << >>, wrapup |-> << >>, uaf |-> FALSE,
             root0 |-> NullAddr]

(***************************************************************************)
(* Initial states: the tree as some earlier activity left it, and the      *)
(* request each evictor session is about to make.                          *)
(***************************************************************************)
\* What a ref and its page may look like when eviction is requested.
Kinds ==
    [st : {"MEM", "LOCKED"}, fl : RecFlags, dirty : BOOLEAN]
    \cup [st : {"DISK", "READING"}, fl : {"NONE"}, dirty : {FALSE}]

\* The candidate of a call is in memory and referenced by a ref in WT_REF_MEM.
OwnKinds == {k \in Kinds : k.st = "MEM"}

\* Below the candidate, one page of every class the tests of __rec_excl and
\* __rec_excl_page tell apart: a dirty page is one flagged SPLIT or EMPTY, and
\* a page flagged REPLACE fails the cheap test as an unflagged one does.
BelowKinds == {k \in Kinds : k.fl # "REPLACE" /\ (k.dirty => k.fl \in {"SPLIT", "EMPTY"})}

Absent == [st |-> "DISK", fl |-> "NONE", dirty |-> FALSE]

Plain == [st |-> "MEM", fl |-> "NONE", dirty |-> FALSE]

InMemory(k) == k.st \in {"MEM", "LOCKED"}

\* The trees in which the pages of cands can be asked to be evicted: the
\* candidates (kinds own) and what lies below them (kinds below) vary, their
\* ancestors are plain in-memory pages and everything else is on disk.
Trees(cands, own, below) ==
    LET under == UNION {Subtree(c) : c \in cands} \ cands
        above == UNION {Ancestors(c) : c \in cands} \ (cands \cup under)
    IN {k \in [OrigPages -> Kinds] :
          \A p \in OrigPages :
            /\ p \in cands => (InMemory(k[p]) /\ k[p] \in own)
            /\ p \in under => k[p] \in below
            /\ p \in above => k[p] = Plain
            /\ p \notin (cands \cup under \cup above) => k[p] = Absent
            /\ (OrigParent(p) # NULL /\ ~InMemory(k[OrigParent(p)]))
                  => k[p] = Absent
            /\ (p \notin cands /\ k[p].st = "LOCKED")
                  => (k[p].fl = "NONE" /\ ~k[p].dirty)}

\* A candidate that is clean and flagged SPLIT was split by an earlier
\* reconciliation: its mod->u.split is in memory already.
PreSplit(k, cands) == {c \in cands : k[c].fl = "SPLIT" /\ ~k[c].dirty}

SplitFor(k, cands, c) ==
    Cardinality(OrigPages) + Cardinality({d \in PreSplit(k, cands) : d <= c})

InitTree(k, cands, addrs, rootAddr) ==
    /\ Cardinality(PreSplit(k, cands)) <= MaxSplit
    /\ refState = [r \in Refs |-> k[r].st]
    /\ refPage = [r \in Refs |-> IF InMemory(k[r]) THEN r ELSE NULL]
    /\ refAddr = [r \in Refs |-> addrs[r]]
    /\ pg = [p \in Pages |->
               IF p \in OrigPages /\ InMemory(k[p])
               THEN [PageRec(k[p].fl, k[p].dirty, p, OrigParent(p), "live")
                       EXCEPT !.modify.split =
                           IF p \in PreSplit(k, cands) THEN SplitFor(k, cands, p) ELSE NULL]
               ELSE IF \E c \in PreSplit(k, cands) : SplitFor(k, cands, c) = p
               THEN LET c == CHOOSE c \in PreSplit(k, cands) : SplitFor(k, cands, c) = p
                    IN PageRec("SPLIT_MERGE", FALSE, c, OrigParent(c), "live")
               ELSE NoPage]
    /\ btree = [root_page |-> RootOrig, root_addr |-> rootAddr, root_update |-> FALSE]
    /\ log = [EmptyLog EXCEPT !.root0 = rootAddr]

\* ref->addr of the candidate: none yet, inside the parent's image, or
\* allocated on its own.  Every other ref has an on-page address.
AddrChoices(cands) ==
    {a \in [Refs -> {NullAddr} \cup {OldAddr(r, i) : r \in Refs, i \in BOOLEAN}] :
       \A r \in Refs :
         /\ a[r] # NullAddr => a[r].size = r
         /\ (r \notin cands \/ r = RootOrig) => a[r] = OldAddr(r, TRUE)}

Request(p, f) == [Idle EXCEPT !.pc = "idle", !.page = p, !.flags = f]

(***************************************************************************)
(* The evictor: __wt_rec_evict(session, page, flags).                      *)
(***************************************************************************)
Single(s) == "SINGLE" \in ev[s].flags

Force(s) == "WAIT" \in ev[s].flags

Goto(s, e) == ev' = [ev EXCEPT ![s] = e]

\* The evictor after it stored a state into ref r: e.excl is the set of refs
\* on which __hazard_exclusive returned 0 and into which the session has
\* stored no state since.
Stored(e, r) == [e EXCEPT !.excl = @ \ {r}]

\* return (ret) from __wt_rec_evict.
Return(e, r) == [e EXCEPT !.pc = "done", !.ret = r, !.stack = << >>]

\* The short-circuit of lines 50-54: a merge-split page is not evicted, its
\* ref is forced back to WT_REF_MEM and the call returns 0.
wt_rec_evict_split_merge(s) ==
    /\ ev[s].pc = "idle"
    /\ pg[ev[s].page].rec_flags = "SPLIT_MERGE"
    /\ refState' = [refState EXCEPT ![pg[ev[s].page].ref] = "MEM"]
    /\ Goto(s, Return(Stored([ev[s] EXCEPT !.pre = refState, !.preaddr = refAddr,
                                     !.prepage = pg[ev[s].page]], pg[ev[s].page].ref), "OK"))
    /\ UNCHANGED <<refPage, refAddr, pg, btree, hazard, rd, log>>

\* Line 64: every other page goes to __rec_review.
wt_rec_evict(s) ==
    /\ ev[s].pc = "idle"
    /\ pg[ev[s].page].rec_flags # "SPLIT_MERGE"
    /\ Goto(s, [ev[s] EXCEPT !.pc = "review", !.pre = refState, !.preaddr = refAddr,
                                     !.prepage = pg[ev[s].page]])
    /\ UNCHANGED <<refState, refPage, refAddr, pg, btree, hazard, rd, log>>

\* A review that asks for exclusive access whatever the flags.
rec_review_lock_always(s) ==
    /\ ev[s].pc = "review"
    /\ Goto(s, [ev[s] EXCEPT !.pc = "hx_lock", !.last_page = NULL,
                            !.hxref = pg[ev[s].page].ref, !.hxret = "review"])
    /\ UNCHANGED <<refState, refPage, refAddr, pg, btree, hazard, rd, log>>

\* __rec_review, lines 303-315: lock the candidate unless WT_REC_SINGLE.
rec_review(s) ==
    /\ ev[s].pc = "review"
    /\ Goto(s, IF Single(s)
               THEN [ev[s] EXCEPT !.pc = "subtree", !.last_page = NULL]
               ELSE [ev[s] EXCEPT !.pc = "hx_lock", !.last_page = NULL,
                                  !.hxref = pg[ev[s].page].ref, !.hxret = "review"])
    /\ UNCHANGED <<refState, refPage, refAddr, pg, btree, hazard, rd, log>>

(***************************************************************************)
(* __hazard_exclusive(session, ref, force).                                *)
(***************************************************************************)
\* Line 570: the unconditional store of WT_REF_LOCKED.
hazard_exclusive_lock(s) ==
    /\ ev[s].pc = "hx_lock"
    /\ refState' = [refState EXCEPT ![ev[s].hxref] = "LOCKED"]
    /\ Goto(s, Stored([ev[s] EXCEPT !.pc = "hx_copy"], ev[s].hxref))
    /\ UNCHANGED <<refPage, refAddr, pg, btree, hazard, rd, log>>

RECURSIVE SortPages(_)
\* qsort by page address (__hazard_qsort_cmp): ascending.
SortPages(S) ==
    IF S = {} THEN << >>
    ELSE LET m == CHOOSE x \in S : \A y \in S : x <= y
         IN <<m>> \o SortPages(S \ {m})

\* __hazard_copy: the non-NULL hazard slots, compacted and sorted.  Two
\* slots naming the same page leave one entry here: the search below only
\* asks whether the page occurs.
hazard_copy == SortPages({hazard[r] : r \in Readers} \ {NULL})

RECURSIVE BSearchFrom(_, _, _, _)
BSearchFrom(key, a, lo, hi) ==
    IF lo > hi THEN FALSE
    ELSE LET mid == (lo + hi) \div 2
         IN IF a[mid] = key THEN TRUE
            ELSE IF key > a[mid] THEN BSearchFrom(key, a, mid + 1, hi)
            ELSE BSearchFrom(key, a, lo, mid - 1)

\* bsearch(ref->page, cache->hazard, ...) != NULL (__hazard_bsearch_cmp).
hazard_found(key, a) == BSearchFrom(key, a, 1, Len(a))

\* After __hazard_exclusive returned 0: back in __rec_review (line 314) or
\* in __rec_excl_page (line 497).
AfterExclusive(e) ==
    IF e.hxret = "review"
    THEN [e EXCEPT !.pc = "subtree", !.last_page = e.page, !.excl = @ \cup {e.hxref}]
    ELSE [e EXCEPT !.pc = "xp_careful", !.excl = @ \cup {e.hxref}]

\* An exclusive request that is granted whatever the copy holds.
hazard_exclusive_ok_blind(s) ==
    /\ ev[s].pc = "hx_copy"
    /\ Goto(s, AfterExclusive(ev[s]))
    /\ UNCHANGED <<refState, refPage, refAddr, pg, btree, hazard, rd, log>>

\* Lines 573-578: no hazard reference on the page, exclusive access granted.
hazard_exclusive_ok(s) ==
    /\ ev[s].pc = "hx_copy"
    /\ ~hazard_found(refPage[ev[s].hxref], hazard_copy)
    /\ Goto(s, AfterExclusive(ev[s]))
    /\ UNCHANGED <<refState, refPage, refAddr, pg, btree, hazard, rd, log>>

\* Lines 586-589: force, so yield and take a fresh copy.
hazard_exclusive_yield(s) ==
    /\ ev[s].pc = "hx_copy"
    /\ hazard_found(refPage[ev[s].hxref], hazard_copy)
    /\ Force(s)
    /\ Goto(s, [ev[s] EXCEPT !.pc = "hx_copy"])
    /\ UNCHANGED <<refState, refPage, refAddr, pg, btree, hazard, rd, log>>

\* A hazard reference gives up the request whether or not force is set.
hazard_exclusive_busy_always(s) ==
    /\ ev[s].pc = "hx_copy"
    /\ hazard_found(refPage[ev[s].hxref], hazard_copy)
    /\ Goto(s, [ev[s] EXCEPT !.pc = "hx_unlock"])
    /\ UNCHANGED <<refState, refPage, refAddr, pg, btree, hazard, rd, log>>

\* Lines 591-594: a hazard reference and no force.
hazard_exclusive_busy(s) ==
    /\ ev[s].pc = "hx_copy"
    /\ hazard_found(refPage[ev[s].hxref], hazard_copy)
    /\ ~Force(s)
    /\ Goto(s, [ev[s] EXCEPT !.pc = "hx_unlock"])
    /\ UNCHANGED <<refState, refPage, refAddr, pg, btree, hazard, rd, log>>

\* Lines 597-599: return the page to in-use and return 1.  In __rec_review
\* WT_RET leaves at once; in __rec_excl the error reaches line 357.
hazard_exclusive_unlock(s) ==
    /\ ev[s].pc = "hx_unlock"
    /\ refState' = [refState EXCEPT ![ev[s].hxref] = "MEM"]
    /\ Goto(s, IF ev[s].hxret = "review"
               THEN Return(Stored(ev[s], ev[s].hxref), "1")
               ELSE [Stored(ev[s], ev[s].hxref) EXCEPT !.pc = "review_fail", !.ret = "1"])
    /\ UNCHANGED <<refPage, refAddr, pg, btree, hazard, rd, log>>

(***************************************************************************)
(* __rec_excl: the walk of the candidate's subtree.  A frame is a call of  *)
(* __rec_excl on frame.page, about to look at child slot frame.i.          *)
(***************************************************************************)
Frame(p, i) == [page |-> p, i |-> i]

Top(e) == e.stack[Len(e.stack)]

Pop(e) == SubSeq(e.stack, 1, Len(e.stack) - 1)

\* The stack with the top frame moved to its next slot.
Advance(e) == [e.stack EXCEPT ![Len(e.stack)].i = @ + 1]

\* The slot the top frame looks at, and whether it has one left.
HasSlot(e) == e.stack # << >> /\ Top(e).i <= Len(Children(Top(e).page))

Slot(e) == Children(Top(e).page)[Top(e).i]

\* __rec_review, lines 344-351: only internal pages have a subtree to walk.
rec_review_subtree(s) ==
    /\ ev[s].pc = "subtree"
    /\ Goto(s, IF IsInternal(ev[s].page)
               THEN [ev[s] EXCEPT !.pc = "walk", !.stack = <<Frame(ev[s].page, 1)>>]
               ELSE [ev[s] EXCEPT !.pc = "write"])
    /\ UNCHANGED <<refState, refPage, refAddr, pg, btree, hazard, rd, log>>

\* Line 408: every slot seen, return 0 to the caller (__rec_excl one level
\* up, or __rec_review, which then returns 0 to __wt_rec_evict).
rec_excl_return(s) ==
    /\ ev[s].pc = "walk"
    /\ ~HasSlot(ev[s])
    /\ Goto(s, [ev[s] EXCEPT !.stack = Pop(ev[s]),
                             !.pc = IF Pop(ev[s]) = << >> THEN "write" ELSE "walk"])
    /\ UNCHANGED <<refState, refPage, refAddr, pg, btree, hazard, rd, log>>

\* Lines 386-387: an on-disk child is skipped.
rec_excl_disk(s) ==
    /\ ev[s].pc = "walk"
    /\ HasSlot(ev[s])
    /\ refState[Slot(ev[s])] = "DISK"
    /\ Goto(s, [ev[s] EXCEPT !.stack = Advance(ev[s])])
    /\ UNCHANGED <<refState, refPage, refAddr, pg, btree, hazard, rd, log>>

\* Lines 390-392: a child being evicted or read ends the walk with WT_ERROR.
rec_excl_blocked(s) ==
    /\ ev[s].pc = "walk"
    /\ HasSlot(ev[s])
    /\ refState[Slot(ev[s])] \in {"LOCKED", "READING"}
    /\ Goto(s, [ev[s] EXCEPT !.pc = "review_fail", !.ret = "WT_ERROR", !.blocked = TRUE])
    /\ UNCHANGED <<refState, refPage, refAddr, pg, btree, hazard, rd, log>>

\* Lines 388-389: an in-memory child goes to __rec_excl_page.
rec_excl_mem(s) ==
    /\ ev[s].pc = "walk"
    /\ HasSlot(ev[s])
    /\ refState[Slot(ev[s])] = "MEM"
    /\ Goto(s, [ev[s] EXCEPT !.pc = "xp_cheap", !.cref = Slot(ev[s])])
    /\ UNCHANGED <<refState, refPage, refAddr, pg, btree, hazard, rd, log>>

\* F_ISSET(page, EMPTY | SPLIT | SPLIT_MERGE), line 478.
CanMerge(p) == pg[p].rec_flags \in {"EMPTY", "SPLIT", "SPLIT_MERGE"}

\* Lines 394 and 478-488: page = ref->page, the cheap test, then the request
\* for exclusive access unless WT_REC_SINGLE.
rec_excl_page_cheap(s) ==
    /\ ev[s].pc = "xp_cheap"
    /\ refPage[ev[s].cref] # NULL
    /\ LET p == refPage[ev[s].cref]
       IN Goto(s, IF ~CanMerge(p)
                  THEN [ev[s] EXCEPT !.pc = "review_fail", !.ret = "1", !.cpage = p]
                  ELSE IF Single(s)
                  THEN [ev[s] EXCEPT !.pc = "xp_careful", !.cpage = p]
                  ELSE [ev[s] EXCEPT !.pc = "hx_lock", !.cpage = p,
                                     !.hxref = ev[s].cref, !.hxret = "child"])
    /\ UNCHANGED <<refState, refPage, refAddr, pg, btree, hazard, rd, log>>

\* Line 394 when another session has set ref->page to NULL since the state
\* was loaded: F_ISSET dereferences a null pointer.
rec_excl_page_null(s) ==
    /\ ev[s].pc = "xp_cheap"
    /\ refPage[ev[s].cref] = NULL
    /\ Goto(s, [ev[s] EXCEPT !.pc = "crashed"])
    /\ UNCHANGED <<refState, refPage, refAddr, pg, btree, hazard, rd, log>>

\* A careful test that takes modified split or empty pages too.
MergeAny(p) == CanMerge(p)

\* Lines 497-502: the careful test.
MergeOK(p) ==
    \/ pg[p].rec_flags = "SPLIT_MERGE"
    \/ (pg[p].rec_flags \in {"SPLIT", "EMPTY"} /\ ~pg[p].modified)

\* Lines 497-502, then 396-406: an accepted child becomes the last locked
\* page and, if internal, is walked in turn; a rejected child returns 1.
rec_excl_page_careful(s) ==
    /\ ev[s].pc = "xp_careful"
    /\ LET p == ev[s].cpage
       IN Goto(s, IF ~MergeOK(p)
                  THEN [ev[s] EXCEPT !.pc = "review_fail", !.ret = "1"]
                  ELSE [ev[s] EXCEPT !.pc = "walk", !.last_page = p,
                                     !.stack = IF IsInternal(p)
                                               THEN Advance(ev[s]) \o <<Frame(p, 1)>>
                                               ELSE Advance(ev[s])])
    /\ UNCHANGED <<refState, refPage, refAddr, pg, btree, hazard, rd, log>>

\* The start of __rec_excl_clear(session, page, last).
StartClear(e, p, last) ==
    [e EXCEPT !.pc = "clr_store", !.cur = p, !.marker = last, !.stack = << >>]

\* A failed review that returns without releasing what it locked.
rec_review_fail_keep(s) ==
    /\ ev[s].pc = "review_fail"
    /\ Goto(s, Return(ev[s], ev[s].ret))
    /\ UNCHANGED <<refState, refPage, refAddr, pg, btree, hazard, rd, log>>

\* Lines 357-360: release what was locked, return the error.
rec_review_fail(s) ==
    /\ ev[s].pc = "review_fail"
    /\ Goto(s, IF ~Single(s) /\ ev[s].last_page # NULL
               THEN StartClear(ev[s], ev[s].page, ev[s].last_page)
               ELSE Return(ev[s], ev[s].ret))
    /\ UNCHANGED <<refState, refPage, refAddr, pg, btree, hazard, rd, log>>

(***************************************************************************)
(* __rec_excl_clear.  Every caller returns its own value once the clear    *)
(* is over (lines 95-96, 154-155, 358-360), so the end of the clear is the *)
(* end of the call.                                                        *)
(***************************************************************************)
\* A clear that walks on past the marker.
excl_clear_store_past(s) ==
    /\ ev[s].pc = "clr_store"
    /\ pg[ev[s].cur].ref # NULL
    /\ LET q == ev[s].cur
       IN /\ refState' = [refState EXCEPT ![pg[q].ref] = "MEM"]
          /\ log' = [log EXCEPT !.uaf = @ \/ pg[q].mem = "freed"]
          /\ LET e == Stored(ev[s], pg[q].ref)
             IN Goto(s, IF IsInternal(q)
                        THEN [e EXCEPT !.pc = "clr_walk",
                                       !.stack = e.stack \o <<Frame(q, 1)>>]
                        ELSE IF e.stack = << >> THEN Return(e, e.ret)
                        ELSE [e EXCEPT !.pc = "clr_walk"])
    /\ UNCHANGED <<refPage, refAddr, pg, btree, hazard, rd>>

\* Lines 427-431: page->ref->state = WT_REF_MEM; stop at the marker; an
\* internal page's slots are visited next.  The page may have been freed
\* by then (the error path after a discard): the store then goes through
\* the stale page->ref, which is recorded.
excl_clear_store(s) ==
    /\ ev[s].pc = "clr_store"
    /\ pg[ev[s].cur].ref # NULL
    /\ LET q == ev[s].cur
       IN /\ refState' = [refState EXCEPT ![pg[q].ref] = "MEM"]
          /\ log' = [log EXCEPT !.uaf = @ \/ pg[q].mem = "freed"]
          /\ LET e == Stored(ev[s], pg[q].ref)
             IN Goto(s, IF q = e.marker THEN Return(e, e.ret)
                        ELSE IF IsInternal(q)
                        THEN [e EXCEPT !.pc = "clr_walk",
                                       !.stack = e.stack \o <<Frame(q, 1)>>]
                        ELSE IF e.stack = << >> THEN Return(e, e.ret)
                        ELSE [e EXCEPT !.pc = "clr_walk"])
    /\ UNCHANGED <<refPage, refAddr, pg, btree, hazard, rd>>

\* Line 458: return 0 to the caller one level up.
excl_clear_return(s) ==
    /\ ev[s].pc = "clr_walk"
    /\ ~HasSlot(ev[s])
    /\ Goto(s, IF Pop(ev[s]) = << >> THEN Return(ev[s], ev[s].ret)
               ELSE [ev[s] EXCEPT !.stack = Pop(ev[s])])
    /\ UNCHANGED <<refState, refPage, refAddr, pg, btree, hazard, rd, log>>

\* Lines 437-438.
excl_clear_disk(s) ==
    /\ ev[s].pc = "clr_walk"
    /\ HasSlot(ev[s])
    /\ refState[Slot(ev[s])] = "DISK"
    /\ Goto(s, [ev[s] EXCEPT !.stack = Advance(ev[s])])
    /\ UNCHANGED <<refState, refPage, refAddr, pg, btree, hazard, rd, log>>

\* Lines 439-440 and 451: a locked child is cleared in turn.
excl_clear_locked(s) ==
    /\ ev[s].pc = "clr_walk"
    /\ HasSlot(ev[s])
    /\ refState[Slot(ev[s])] = "LOCKED"
    /\ refPage[Slot(ev[s])] # NULL
    /\ Goto(s, [ev[s] EXCEPT !.pc = "clr_store", !.cur = refPage[Slot(ev[s])],
                             !.stack = Advance(ev[s])])
    /\ UNCHANGED <<refState, refPage, refAddr, pg, btree, hazard, rd, log>>

\* Line 449: WT_ILLEGAL_VALUE returns an error, which every level above
\* takes for the marker's "done" (line 451) and the callers ignore.
excl_clear_illegal(s) ==
    /\ ev[s].pc = "clr_walk"
    /\ HasSlot(ev[s])
    /\ refState[Slot(ev[s])] \in {"MEM", "READING"}
    /\ Goto(s, Return(ev[s], ev[s].ret))
    /\ UNCHANGED <<refState, refPage, refAddr, pg, btree, hazard, rd, log>>

(***************************************************************************)
(* __wt_rec_write, the reconciliation collaborator: it leaves the page's   *)
(* rec_flags at one outcome and fills page->modify.  A split builds a new  *)
(* internal page flagged WT_PAGE_REC_SPLIT_MERGE.                          *)
(***************************************************************************)
Unused == {n \in NewPages : pg[n].mem = "none"}

FreshPage == CHOOSE n \in Unused : \A m \in Unused : n <= m

RecOutcomes == {"EMPTY", "REPLACE", "SPLIT", "SPLIT_MERGE"}

SplitPage(p) == PageRec("SPLIT_MERGE", FALSE, pg[p].ref, pg[p].parent, "live")

\* The pages after reconciling p with outcome o, the w-th write.
Reconciled(p, o, w) ==
    LET m == [set |-> TRUE,
              replace |-> IF o = "REPLACE" THEN RecAddr(w) ELSE NullAddr,
              split |-> IF o = "SPLIT" THEN FreshPage ELSE NULL]
        q == [pg EXCEPT ![p].rec_flags = o, ![p].modified = FALSE, ![p].modify = m]
    IN IF o = "SPLIT" THEN [q EXCEPT ![FreshPage] = SplitPage(p)] ELSE q

RecWrite(s, p, o) ==
    /\ o \in RecOutcomes
    /\ o = "SPLIT" => Unused # {}
    /\ pg' = Reconciled(p, o, Len(log.writes) + 1)
    /\ log' = [log EXCEPT !.writes = Append(@, [page |-> p, outcome |-> o, by |-> s])]

RecWriteError(s, p) ==
    /\ log' = [log EXCEPT !.writes = Append(@, [page |-> p, outcome |-> "ERROR", by |-> s])]
    /\ UNCHANGED pg

\* Line 67 when the page is clean: nothing to write.
wt_rec_evict_clean(s) ==
    /\ ev[s].pc = "write"
    /\ ~pg[ev[s].page].modified
    /\ Goto(s, [ev[s] EXCEPT !.pc = "update", !.rpage = ev[s].page])
    /\ UNCHANGED <<refState, refPage, refAddr, pg, btree, hazard, rd, log>>

\* Lines 67-68: the dirty page is written.
wt_rec_evict_write(s, o) ==
    /\ ev[s].pc = "write"
    /\ pg[ev[s].page].modified
    /\ RecWrite(s, ev[s].page, o)
    /\ Goto(s, [ev[s] EXCEPT !.pc = "update", !.rpage = ev[s].page])
    /\ UNCHANGED <<refState, refPage, refAddr, btree, hazard, rd>>

\* Line 68: WT_ERR on a failed write.
wt_rec_evict_write_error(s) ==
    /\ ev[s].pc = "write"
    /\ pg[ev[s].page].modified
    /\ RecWriteError(s, ev[s].page)
    /\ Goto(s, [ev[s] EXCEPT !.pc = "err", !.ret = "ERR"])
    /\ UNCHANGED <<refState, refPage, refAddr, btree, hazard, rd>>

\* Lines 94-96: the error label.
wt_rec_evict_err(s) ==
    /\ ev[s].pc = "err"
    /\ Goto(s, IF Single(s) THEN Return(ev[s], ev[s].ret)
               ELSE StartClear(ev[s], ev[s].page, NULL))
    /\ UNCHANGED <<refState, refPage, refAddr, pg, btree, hazard, rd, log>>

(***************************************************************************)
(* The update of the parent, lines 76-90.                                  *)
(***************************************************************************)
\* F_ISSET(page, WT_PAGE_REC_MASK) == 0 at line 76.
AtUpdate(s, root, fls) ==
    /\ ev[s].pc = "update"
    /\ WT_PAGE_IS_ROOT(ev[s].page) = root
    /\ pg[ev[s].page].rec_flags \in fls

\* The start of __rec_discard(session, p).
StartDiscard(e, p, then) ==
    [e EXCEPT !.pc = "dsc_walk", !.stack = <<Frame(p, 1)>>, !.droot = p, !.after = then]

\* The start of __rec_discard_page(session, p), called on its own.
StartDiscardPage(e, p, then) ==
    [e EXCEPT !.pc = "dsc_page", !.stack = << >>, !.cur = p, !.droot = p, !.after = then]

\* A clean update that leaves the page pointer in the ref.
rec_page_clean_update_keep(s) ==
    /\ AtUpdate(s, FALSE, {"NONE"})
    /\ Goto(s, [ev[s] EXCEPT !.pc = "pcu_state"])
    /\ UNCHANGED <<refState, refPage, refAddr, pg, btree, hazard, rd, log>>

\* __rec_page_clean_update, line 110.
rec_page_clean_update(s) ==
    /\ AtUpdate(s, FALSE, {"NONE"})
    /\ refPage' = [refPage EXCEPT ![pg[ev[s].page].ref] = NULL]
    /\ Goto(s, [ev[s] EXCEPT !.pc = "pcu_state"])
    /\ UNCHANGED <<refState, refAddr, pg, btree, hazard, rd, log>>

\* __rec_page_clean_update, lines 111-113.
rec_page_clean_update_state(s) ==
    /\ ev[s].pc = "pcu_state"
    /\ refState' = [refState EXCEPT ![pg[ev[s].page].ref] = "DISK"]
    /\ Goto(s, StartDiscardPage(Stored(ev[s], pg[ev[s].page].ref), ev[s].page, "done"))
    /\ UNCHANGED <<refPage, refAddr, pg, btree, hazard, rd, log>>

\* Lines 110-111 the other way round.  The two stores are plain
\* assignments with no barrier between them ("no memory flush is needed, the
\* state field is declared volatile"): ref->page is not volatile, and a
\* volatile store orders nothing but other volatile accesses, so the
\* compiler or the processor may make WT_REF_DISK visible first.
rec_page_clean_update_state_first(s) ==
    /\ AtUpdate(s, FALSE, {"NONE"})
    /\ refState' = [refState EXCEPT ![pg[ev[s].page].ref] = "DISK"]
    /\ Goto(s, Stored([ev[s] EXCEPT !.pc = "pcu_page"], pg[ev[s].page].ref))
    /\ UNCHANGED <<refPage, refAddr, pg, btree, hazard, rd, log>>

\* The store of line 110 becoming visible after that of line 111, then
\* line 113.
rec_page_clean_update_page(s) ==
    /\ ev[s].pc = "pcu_page"
    /\ refPage' = [refPage EXCEPT ![pg[ev[s].page].ref] = NULL]
    /\ Goto(s, StartDiscardPage(ev[s], ev[s].page, "done"))
    /\ UNCHANGED <<refState, refAddr, pg, btree, hazard, rd, log>>

\* __rec_root_clean_update, lines 127-129.
rec_root_clean_update(s) ==
    /\ AtUpdate(s, TRUE, {"NONE"})
    /\ btree' = [btree EXCEPT !.root_page = NULL]
    /\ Goto(s, StartDiscardPage(ev[s], ev[s].page, "done"))
    /\ UNCHANGED <<refState, refPage, refAddr, pg, hazard, rd, log>>

\* An EMPTY outcome that returns 0 with the subtree still locked.
rec_page_dirty_update_empty_keep(s) ==
    /\ AtUpdate(s, FALSE, {"EMPTY"})
    /\ Goto(s, Return(ev[s], "OK"))
    /\ UNCHANGED <<refState, refPage, refAddr, pg, btree, hazard, rd, log>>

\* __rec_page_dirty_update, lines 146-155: the empty page stays in memory.
rec_page_dirty_update_empty(s) ==
    /\ AtUpdate(s, FALSE, {"EMPTY"})
    /\ Goto(s, IF Single(s) THEN Return(ev[s], "OK")
               ELSE StartClear([ev[s] EXCEPT !.ret = "OK"], ev[s].page, NULL))
    /\ UNCHANGED <<refState, refPage, refAddr, pg, btree, hazard, rd, log>>

\* An update that frees whatever old address there is, on-page or not.
FreesOldAlways(r) == refAddr[r] # NullAddr

\* Lines 157-159: the old address is freed if it was allocated on its own.
FreesOld(r) == refAddr[r] # NullAddr /\ wt_off_page(refAddr[r])

\* Lines 157-165: the new address and the NULL page pointer.
rec_page_dirty_update_replace(s) ==
    /\ AtUpdate(s, FALSE, {"REPLACE"})
    /\ LET r == pg[ev[s].page].ref
       IN /\ log' = [log EXCEPT !.freed = IF FreesOld(r) THEN Append(@, refAddr[r]) ELSE @]
          /\ refAddr' = [refAddr EXCEPT ![r] = pg[ev[s].page].modify.replace]
          /\ refPage' = [refPage EXCEPT ![r] = NULL]
    /\ Goto(s, [ev[s] EXCEPT !.pc = "pdu_replace"])
    /\ UNCHANGED <<refState, pg, btree, hazard, rd>>

\* Lines 160-161: __wt_calloc fails, after the old address was freed.
rec_page_dirty_update_nomem(s) ==
    /\ AtUpdate(s, FALSE, {"REPLACE"})
    /\ LET r == pg[ev[s].page].ref
       IN /\ log' = [log EXCEPT !.freed = IF FreesOld(r) THEN Append(@, refAddr[r]) ELSE @]
          /\ refAddr' = [refAddr EXCEPT ![r] = IF FreesOld(r) THEN NullAddr ELSE @]
    /\ Goto(s, [ev[s] EXCEPT !.pc = "err", !.ret = "ERR"])
    /\ UNCHANGED <<refState, refPage, pg, btree, hazard, rd>>

\* A replace commit that publishes WT_REF_MEM over the NULL page pointer.
rec_page_dirty_update_replace_publish_mem(s) ==
    /\ ev[s].pc = "pdu_replace"
    /\ refState' = [refState EXCEPT ![pg[ev[s].page].ref] = "MEM"]
    /\ Goto(s, StartDiscard(Stored(ev[s], pg[ev[s].page].ref), ev[s].page, "done"))
    /\ UNCHANGED <<refPage, refAddr, pg, btree, hazard, rd, log>>

\* Line 171: WT_PUBLISH(parent_ref->state, WT_REF_DISK), then line 190.
rec_page_dirty_update_replace_publish(s) ==
    /\ ev[s].pc = "pdu_replace"
    /\ refState' = [refState EXCEPT ![pg[ev[s].page].ref] = "DISK"]
    /\ Goto(s, StartDiscard(Stored(ev[s], pg[ev[s].page].ref), ev[s].page, "done"))
    /\ UNCHANGED <<refPage, refAddr, pg, btree, hazard, rd, log>>

\* Line 180: parent_ref->page = mod->u.split.
rec_page_dirty_update_split(s) ==
    /\ AtUpdate(s, FALSE, {"SPLIT"})
    /\ refPage' = [refPage EXCEPT ![pg[ev[s].page].ref] = pg[ev[s].page].modify.split]
    /\ Goto(s, [ev[s] EXCEPT !.pc = "pdu_split"])
    /\ UNCHANGED <<refState, refAddr, pg, btree, hazard, rd, log>>

\* Line 181: WT_PUBLISH(parent_ref->state, WT_REF_MEM), then line 190.
rec_page_dirty_update_split_publish(s) ==
    /\ ev[s].pc = "pdu_split"
    /\ refState' = [refState EXCEPT ![pg[ev[s].page].ref] = "MEM"]
    /\ Goto(s, StartDiscard(Stored(ev[s], pg[ev[s].page].ref), ev[s].page, "done"))
    /\ UNCHANGED <<refPage, refAddr, pg, btree, hazard, rd, log>>

\* Line 183: WT_ILLEGAL_VALUE for any other rec_flags.
rec_page_dirty_update_illegal(s) ==
    /\ AtUpdate(s, FALSE, {"SPLIT_MERGE"})
    /\ Goto(s, [ev[s] EXCEPT !.pc = "err", !.ret = "ERR"])
    /\ UNCHANGED <<refState, refPage, refAddr, pg, btree, hazard, rd, log>>

\* A discard that passes over an in-memory child as over an on-disk one.
rec_discard_child_skip(s) ==
    /\ ev[s].pc = "dsc_walk"
    /\ HasSlot(ev[s])
    /\ refState[Slot(ev[s])] # "DISK"
    /\ Goto(s, [ev[s] EXCEPT !.stack = Advance(ev[s])])
    /\ UNCHANGED <<refState, refPage, refAddr, pg, btree, hazard, rd, log>>

(***************************************************************************)
(* __rec_discard and __rec_discard_page.  A frame is a call of             *)
(* __rec_discard on frame.page, about to look at child slot frame.i.       *)
(***************************************************************************)
\* Lines 519-521: a child whose state is not WT_REF_DISK is discarded first.
rec_discard_child(s) ==
    /\ ev[s].pc = "dsc_walk"
    /\ HasSlot(ev[s])
    /\ refState[Slot(ev[s])] # "DISK"
    /\ refPage[Slot(ev[s])] # NULL
    /\ Goto(s, [ev[s] EXCEPT !.stack = Advance(ev[s]) \o <<Frame(refPage[Slot(ev[s])], 1)>>])
    /\ UNCHANGED <<refState, refPage, refAddr, pg, btree, hazard, rd, log>>

\* Line 520 for an on-disk child.
rec_discard_disk(s) ==
    /\ ev[s].pc = "dsc_walk"
    /\ HasSlot(ev[s])
    /\ refState[Slot(ev[s])] = "DISK"
    /\ Goto(s, [ev[s] EXCEPT !.stack = Advance(ev[s])])
    /\ UNCHANGED <<refState, refPage, refAddr, pg, btree, hazard, rd, log>>

\* Lines 522-524: the children are gone (or the page is a leaf), the page
\* itself goes to __rec_discard_page.
rec_discard_self(s) ==
    /\ ev[s].pc = "dsc_walk"
    /\ ev[s].stack # << >>
    /\ ~HasSlot(ev[s])
    /\ Goto(s, [ev[s] EXCEPT !.pc = "dsc_page", !.cur = Top(ev[s]).page,
                             !.stack = Pop(ev[s])])
    /\ UNCHANGED <<refState, refPage, refAddr, pg, btree, hazard, rd, log>>

\* What follows a __rec_discard that returned 0: line 192 (or 113, 129)
\* returns 0, line 267 goes on with the root split.
AfterDiscard(e) ==
    IF e.stack # << >> THEN [e EXCEPT !.pc = "dsc_walk"]
    ELSE IF e.after = "root" THEN [e EXCEPT !.pc = "rdu_next"]
    ELSE Return(e, "OK")

\* __rec_discard_page, lines 538-539: a page with a modify structure has
\* its tracked objects resolved first.
rec_discard_page_wrapup(s) ==
    /\ ev[s].pc = "dsc_page"
    /\ pg[ev[s].cur].modify.set
    /\ log' = [log EXCEPT !.wrapup = Append(@, ev[s].cur)]
    /\ Goto(s, [ev[s] EXCEPT !.pc = "dsc_out"])
    /\ UNCHANGED <<refState, refPage, refAddr, pg, btree, hazard, rd>>

\* __rec_discard_page, lines 542-544: __wt_page_out, after the wrapup if
\* there was one to do.
rec_discard_page(s) ==
    /\ \/ ev[s].pc = "dsc_out"
       \/ ev[s].pc = "dsc_page" /\ ~pg[ev[s].cur].modify.set
    /\ LET p == ev[s].cur
       IN /\ pg' = [pg EXCEPT ![p].mem = "freed"]
          /\ log' = [log EXCEPT
                       !.out = Append(@, [page |-> p, root |-> ev[s].droot,
                                           rec_flags |-> pg[p].rec_flags,
                                           hazards |-> {r \in Readers : hazard[r] = p},
                                           holders |-> {r \in Readers :
                                                          hazard[r] = p /\ rd[r].pc = "held"},
                                           by |-> s])]
    /\ Goto(s, AfterDiscard(ev[s]))
    /\ UNCHANGED <<refState, refPage, refAddr, btree, hazard, rd>>

\* Line 539: __wt_rec_track_wrapup fails, WT_RET up to the error label.
rec_discard_page_error(s) ==
    /\ ev[s].pc = "dsc_page"
    /\ pg[ev[s].cur].modify.set
    /\ Goto(s, [ev[s] EXCEPT !.pc = "err", !.ret = "ERR", !.stack = << >>])
    /\ UNCHANGED <<refState, refPage, refAddr, pg, btree, hazard, rd, log>>

(***************************************************************************)
(* __rec_root_dirty_update, on ev[s].rpage: the candidate first, then each *)
(* page a root split made.                                                 *)
(***************************************************************************)
AtRootUpdate(s, fls) ==
    /\ \/ AtUpdate(s, TRUE, RecOutcomes)
       \/ ev[s].pc = "rdu"
    /\ pg[ev[s].rpage].rec_flags \in fls

\* A root address update that overwrites the old address without freeing it.
RootAddrUpdateLeak(a) ==
    /\ btree' = [root_page |-> NULL, root_addr |-> a, root_update |-> TRUE]
    /\ log' = log

\* __rec_root_addr_update, lines 209-217, then line 243 or 251.
RootAddrUpdate(a) ==
    /\ btree' = [root_page |-> NULL, root_addr |-> a, root_update |-> TRUE]
    /\ log' = [log EXCEPT
                 !.bm_free = IF btree.root_addr # NullAddr
                             THEN Append(@, btree.root_addr) ELSE @,
                 !.freed = IF btree.root_addr # NullAddr
                           THEN Append(@, btree.root_addr) ELSE @]

\* Lines 238-244 and 265.
rec_root_dirty_update_empty(s) ==
    /\ AtRootUpdate(s, {"EMPTY"})
    /\ RootAddrUpdate(NullAddr)
    /\ Goto(s, StartDiscard([ev[s] EXCEPT !.next = NULL], ev[s].rpage, "root"))
    /\ UNCHANGED <<refState, refPage, refAddr, pg, hazard, rd>>

\* Lines 245-252 and 265.
rec_root_dirty_update_replace(s) ==
    /\ AtRootUpdate(s, {"REPLACE"})
    /\ RootAddrUpdate(pg[ev[s].rpage].modify.replace)
    /\ Goto(s, StartDiscard([ev[s] EXCEPT !.next = NULL], ev[s].rpage, "root"))
    /\ UNCHANGED <<refState, refPage, refAddr, pg, hazard, rd>>

\* Line 210: __wt_bm_free fails, WT_RET up to the error label.
rec_root_addr_update_error(s) ==
    /\ AtRootUpdate(s, {"EMPTY", "REPLACE"})
    /\ btree.root_addr # NullAddr
    /\ Goto(s, [ev[s] EXCEPT !.pc = "err", !.ret = "ERR"])
    /\ UNCHANGED <<refState, refPage, refAddr, pg, btree, hazard, rd, log>>

\* A split root whose replacement is not taken up: next stays NULL.
rec_root_dirty_update_split_stop(s) ==
    /\ AtRootUpdate(s, {"SPLIT"})
    /\ Goto(s, StartDiscard([ev[s] EXCEPT !.next = NULL], ev[s].rpage, "root"))
    /\ UNCHANGED <<refState, refPage, refAddr, pg, btree, hazard, rd, log>>

\* Lines 253-258 and 265.
rec_root_dirty_update_split(s) ==
    /\ AtRootUpdate(s, {"SPLIT"})
    /\ Goto(s, StartDiscard([ev[s] EXCEPT !.next = pg[ev[s].rpage].modify.split],
                            ev[s].rpage, "root"))
    /\ UNCHANGED <<refState, refPage, refAddr, pg, btree, hazard, rd, log>>

\* The switch of line 237 has no case for any other value: next stays NULL
\* and line 265 discards the page.
rec_root_dirty_update_other(s) ==
    /\ AtRootUpdate(s, {"NONE", "SPLIT_MERGE"})
    /\ Goto(s, StartDiscard([ev[s] EXCEPT !.next = NULL], ev[s].rpage, "root"))
    /\ UNCHANGED <<refState, refPage, refAddr, pg, btree, hazard, rd, log>>

\* Lines 267-268.
rec_root_dirty_update_done(s) ==
    /\ ev[s].pc = "rdu_next"
    /\ ev[s].next = NULL
    /\ Goto(s, Return(ev[s], "OK"))
    /\ UNCHANGED <<refState, refPage, refAddr, pg, btree, hazard, rd, log>>

\* Lines 285-287: the new root is made to look like a modified page.
rec_root_dirty_update_next(s) ==
    /\ ev[s].pc = "rdu_next"
    /\ ev[s].next # NULL
    /\ pg' = [pg EXCEPT ![ev[s].next].modify.set = TRUE,
                        ![ev[s].next].modified = TRUE,
                        ![ev[s].next].rec_flags = "NONE"]
    /\ Goto(s, [ev[s] EXCEPT !.pc = "rdu_write"])
    /\ UNCHANGED <<refState, refPage, refAddr, btree, hazard, rd, log>>

\* Line 285: __wt_page_modify_init fails.
rec_root_dirty_update_next_error(s) ==
    /\ ev[s].pc = "rdu_next"
    /\ ev[s].next # NULL
    /\ Goto(s, [ev[s] EXCEPT !.pc = "err", !.ret = "ERR"])
    /\ UNCHANGED <<refState, refPage, refAddr, pg, btree, hazard, rd, log>>

\* Lines 288-289: write the new root and process it as a dirty root.
rec_root_dirty_update_write(s, o) ==
    /\ ev[s].pc = "rdu_write"
    /\ RecWrite(s, ev[s].next, o)
    /\ Goto(s, [ev[s] EXCEPT !.pc = "rdu", !.rpage = ev[s].next])
    /\ UNCHANGED <<refState, refPage, refAddr, btree, hazard, rd>>

\* Line 288: the write fails.
rec_root_dirty_update_write_error(s) ==
    /\ ev[s].pc = "rdu_write"
    /\ RecWriteError(s, ev[s].next)
    /\ Goto(s, [ev[s] EXCEPT !.pc = "err", !.ret = "ERR"])
    /\ UNCHANGED <<refState, refPage, refAddr, btree, hazard, rd>>

(***************************************************************************)
(* Readers: the publish protocol of a session that wants to use a page     *)
(* (store the hazard reference, full barrier, check the state is still     *)
(* WT_REF_MEM, else clear the slot), and the release of the reference.     *)
(***************************************************************************)
\* The refs a reader can come to: the root's, and the slots of a page that
\* is still in memory.
(***************************************************************************)
(* Readers.  The protocol by which a session publishes a hazard reference  *)
(* is not in rec_evict.c; it is the one the specification gives: store the *)
(* page in the hazard slot, fence, load ref->state, keep the hazard if it  *)
(* is WT_REF_MEM and clear the slot if not.                                *)
(***************************************************************************)
\* A reader descends to ref r through pages that are in memory.
Reachable(r) == IF OrigParent(r) = NULL THEN TRUE ELSE pg[OrigParent(r)].mem = "live"

\* The reader loads ref->page and stores it in its hazard slot.
reader_publish(r, ref) ==
    /\ rd[r].pc = "idle"
    /\ Reachable(ref)
    /\ refPage[ref] # NULL
    /\ hazard' = [hazard EXCEPT ![r] = refPage[ref]]
    /\ rd' = [rd EXCEPT ![r] = [pc |-> "check", ref |-> ref]]
    /\ UNCHANGED <<refState, refPage, refAddr, pg, btree, ev, log>>

\* After the fence: ref->state is WT_REF_MEM, the hazard reference stands.
reader_check_ok(r) ==
    /\ rd[r].pc = "check"
    /\ refState[rd[r].ref] = "MEM"
    /\ rd' = [rd EXCEPT ![r].pc = "held"]
    /\ UNCHANGED <<refState, refPage, refAddr, pg, btree, hazard, ev, log>>

\* After the fence: any other state, the reader clears the slot and backs out.
reader_check_fail(r) ==
    /\ rd[r].pc = "check"
    /\ refState[rd[r].ref] # "MEM"
    /\ hazard' = [hazard EXCEPT ![r] = NULL]
    /\ rd' = [rd EXCEPT ![r] = IdleReader]
    /\ UNCHANGED <<refState, refPage, refAddr, pg, btree, ev, log>>

\* The reader is done with the page and clears its hazard reference.
reader_clear(r) ==
    /\ rd[r].pc = "held"
    /\ hazard' = [hazard EXCEPT ![r] = NULL]
    /\ rd' = [rd EXCEPT ![r] = IdleReader]
    /\ UNCHANGED <<refState, refPage, refAddr, pg, btree, ev, log>>

(***************************************************************************)
(* Specifications.                                                         *)
(***************************************************************************)
\* The steps of one evictor that meets no hazard reference.
Review(s) ==
    \/ wt_rec_evict_split_merge(s)
    \/ wt_rec_evict(s)
    \/ rec_review(s)
    \/ hazard_exclusive_lock(s)
    \/ hazard_exclusive_ok(s)
    \/ rec_review_subtree(s)
    \/ rec_excl_return(s)
    \/ rec_excl_disk(s)
    \/ rec_excl_blocked(s)
    \/ rec_excl_mem(s)
    \/ rec_excl_page_cheap(s)
    \/ rec_excl_page_careful(s)
    \/ rec_review_fail(s)

Clear(s) ==
    \/ excl_clear_store(s)
    \/ excl_clear_return(s)
    \/ excl_clear_disk(s)
    \/ excl_clear_locked(s)

Write(s) ==
    \/ wt_rec_evict_clean(s)
    \/ \E o \in RecOutcomes : wt_rec_evict_write(s, o)

Update(s) ==
    \/ rec_page_clean_update(s)
    \/ rec_page_clean_update_state(s)
    \/ rec_page_clean_update_state_first(s)
    \/ rec_page_clean_update_page(s)
    \/ rec_page_dirty_update_empty(s)
    \/ rec_page_dirty_update_replace(s)
    \/ rec_page_dirty_update_replace_publish(s)
    \/ rec_page_dirty_update_split(s)
    \/ rec_page_dirty_update_split_publish(s)
    \/ rec_page_dirty_update_illegal(s)
    \/ wt_rec_evict_err(s)

Discard(s) ==
    \/ rec_discard_child(s)
    \/ rec_discard_disk(s)
    \/ rec_discard_self(s)
    \/ rec_discard_page_wrapup(s)
    \/ rec_discard_page(s)

RootUpdate(s) ==
    \/ rec_root_clean_update(s)
    \/ rec_root_dirty_update_empty(s)
    \/ rec_root_dirty_update_replace(s)
    \/ rec_root_dirty_update_split(s)
    \/ rec_root_dirty_update_other(s)
    \/ rec_root_dirty_update_done(s)
    \/ rec_root_dirty_update_next(s)
    \/ \E o \in RecOutcomes : rec_root_dirty_update_write(s, o)

\* The collaborators' failures.
Failures(s) ==
    \/ wt_rec_evict_write_error(s)
    \/ rec_page_dirty_update_nomem(s)
    \/ rec_discard_page_error(s)
    \/ rec_root_addr_update_error(s)
    \/ rec_root_dirty_update_next_error(s)
    \/ rec_root_dirty_update_write_error(s)

HazardConflict(s) ==
    \/ hazard_exclusive_yield(s)
    \/ hazard_exclusive_busy(s)
    \/ hazard_exclusive_unlock(s)

Evict(s) ==
    Review(s) \/ Clear(s) \/ Write(s) \/ Update(s) \/ Discard(s) \/ RootUpdate(s)
        \/ Failures(s)

Reader(r) ==
    \/ \E ref \in Refs : reader_publish(r, ref)
    \/ reader_check_ok(r)
    \/ reader_check_fail(r)
    \/ reader_clear(r)

NoReaders ==
    /\ hazard = [r \in Readers |-> NULL]
    /\ rd = [r \in Readers |-> IdleReader]

\* One session evicts one page of a tree nobody else touches.
Init ==
    /\ \E c \in OrigPages, f \in {{}, {"SINGLE"}} :
         /\ \E k \in Trees({c}, OwnKinds, BelowKinds), a \in AddrChoices({c}),
               ra \in {NullAddr, OldAddr(RootOrig, FALSE)} :
              /\ c # RootOrig => ra = OldAddr(RootOrig, FALSE)
              /\ InitTree(k, {c}, a, ra)
         /\ ev = [s \in Evictors |-> IF s = "e1" THEN Request(c, f) ELSE Idle]
    /\ NoReaders

Next == Evict("e1")

Spec == Init /\ [][Next]_vars

\* One session evicts internal page 2 or leaf page 3 while readers publish and
\* clear hazard references on the pages of the tree; the call may have
\* WT_REC_WAIT set.
InitHazard ==
    /\ \E c \in {2, 3}, f \in {{}, {"WAIT"}} :
         /\ \E k \in Trees({c}, OwnKinds, BelowKinds) :
              InitTree(k, {c}, [r \in Refs |-> OldAddr(r, TRUE)], OldAddr(RootOrig, FALSE))
         /\ ev = [s \in Evictors |-> IF s = "e1" THEN Request(c, f) ELSE Idle]
    /\ NoReaders

NextHazard ==
    \/ Review("e1") \/ Clear("e1") \/ Write("e1") \/ Update("e1") \/ Discard("e1")
    \/ HazardConflict("e1")
    \/ \E r \in Readers : Reader(r)

SpecHazard == InitHazard /\ [][NextHazard]_vars

\* The exclusive requests of one call, with readers, up to the end of
\* __rec_review.  The session is scheduled again and again while it has a
\* step that changes something (the yield of line 588 gives the processor
\* away and changes nothing), and a reader that has stored a hazard
\* reference goes on to its check, and one that holds a page to its clear;
\* nothing makes a reader ask for a page.
NextWait ==
    \/ Review("e1") \/ excl_clear_store("e1") \/ HazardConflict("e1")
    \/ \E r \in Readers : Reader(r)

SpecWait ==
    /\ InitHazard /\ [][NextWait]_vars
    /\ WF_vars(Review("e1") \/ excl_clear_store("e1") \/ HazardConflict("e1"))
    /\ \A r \in Readers :
         WF_vars(reader_check_ok(r) \/ reader_check_fail(r) \/ reader_clear(r))

\* Two sessions ask at once, without WT_REC_SINGLE, for the eviction of page
\* 2, or one for page 2 and the other for its child, page 4.  The behaviours
\* are those of the two calls up to the end of __rec_review (its unwinding
\* included): a session that has passed review stays where it is.
InitTwo ==
    /\ \E c \in {2, 4} :
         /\ \E k \in Trees({2, c}, OwnKinds, BelowKinds) :
              InitTree(k, {2, c}, [r \in Refs |-> OldAddr(r, TRUE)], OldAddr(RootOrig, FALSE))
         /\ ev = [s \in Evictors |-> IF s = "e1" THEN Request(2, {}) ELSE Request(c, {})]
    /\ NoReaders

NextTwo == \E s \in Evictors : Review(s) \/ excl_clear_store(s)

SpecTwo == InitTwo /\ [][NextTwo]_vars

\* Two sessions ask at once, without WT_REC_SINGLE, for the eviction of page
\* 2, or one for page 2 and the other for its child, page 4 (a clean page, or
\* a merge-split page the first session locks as part of page 2's subtree),
\* and both calls run to their end.  Page 2 may be modified, and is then
\* written by whichever session gets there.
RaceKinds == {k \in BelowKinds : k.st = "MEM" /\ ~k.dirty /\ k.fl \in {"NONE", "SPLIT_MERGE"}}

RaceOwnKinds == {k \in OwnKinds : k.fl \in {"NONE", "SPLIT_MERGE"}}

InitRace ==
    /\ \E c \in {2, 4} :
         /\ \E k \in Trees({2, c}, RaceOwnKinds, RaceKinds \cup {Absent}) :
              InitTree(k, {2, c}, [r \in Refs |-> OldAddr(r, TRUE)], OldAddr(RootOrig, FALSE))
         /\ ev = [s \in Evictors |-> IF s = "e1" THEN Request(2, {}) ELSE Request(c, {})]
    /\ NoReaders

NextRace ==
    \E s \in Evictors : Review(s) \/ Clear(s) \/ Write(s) \/ Update(s) \/ Discard(s)

SpecRace == InitRace /\ [][NextRace]_vars

\* Below the root of a call on the root: on disk, clean and split (review
\* accepts it), or locked by somebody else.
RootBelowKinds ==
    {k \in BelowKinds : \/ k = Absent
                        \/ (k.st = "MEM" /\ k.fl = "SPLIT" /\ ~k.dirty)
                        \/ k.st = "LOCKED"}

\* One session evicts the root; every step that can be taken is taken in the
\* end (the session is scheduled, its collaborators return).
InitRoot ==
    /\ \E f \in {{}, {"SINGLE"}} :
         /\ \E k \in Trees({RootOrig}, OwnKinds, RootBelowKinds),
               ra \in {NullAddr, OldAddr(RootOrig, FALSE)} :
              InitTree(k, {RootOrig}, [r \in Refs |-> OldAddr(r, TRUE)], ra)
         /\ ev = [s \in Evictors |-> IF s = "e1" THEN Request(RootOrig, f) ELSE Idle]
    /\ NoReaders

NextRoot ==
    \/ Review("e1") \/ Clear("e1") \/ Write("e1") \/ Discard("e1") \/ RootUpdate("e1")
    \/ wt_rec_evict_err("e1")
    \/ wt_rec_evict_write_error("e1")
    \/ rec_discard_page_error("e1")
    \/ rec_root_addr_update_error("e1")
    \/ rec_root_dirty_update_next_error("e1")
    \/ rec_root_dirty_update_write_error("e1")

SpecRoot == InitRoot /\ [][NextRoot]_vars /\ WF_vars(NextRoot)

RECURSIVE PreOrder(_), PreOrderFrom(_, _)
\* The pages below and including p in the order in which __rec_excl and
\* __rec_excl_clear meet them: a page, then what lies below each of its
\* slots in WT_REF_FOREACH order.
PreOrder(p) == <<p>> \o PreOrderFrom(p, 1)

PreOrderFrom(p, i) ==
    IF i > Len(Children(p)) THEN << >>
    ELSE PreOrder(Children(p)[i]) \o PreOrderFrom(p, i + 1)

\* The place of page p in the order of the subtree of c.
Ord(c, p) == CHOOSE i \in DOMAIN PreOrder(c) : PreOrder(c)[i] = p

\* The subtrees __rec_excl_clear(c, last) is called on: the walk of
\* __rec_excl locked every in-memory page it met up to last (every one,
\* when last is NULL), the pages after last are as they were, in memory,
\* on disk or being read.
ClearKinds == {k \in Kinds : ~k.dirty /\ k.fl \in {"NONE", "EMPTY"}}

ClearTrees(c, last) ==
    {k \in [OrigPages -> ClearKinds] :
       /\ k[c].st = "LOCKED"
       /\ last # NULL => k[last].st = "LOCKED"
       /\ \A p \in OrigPages :
            /\ p \in Ancestors(c) => k[p] = Plain
            /\ p \notin (Subtree(c) \cup Ancestors(c)) => k[p] = Absent
            /\ (OrigParent(p) # NULL /\ ~InMemory(k[OrigParent(p)])) => k[p] = Absent
            /\ p \in Subtree(c) =>
                 /\ k[p].fl = IF k[p].st = "LOCKED" /\ p # c THEN "EMPTY" ELSE "NONE"
                 /\ IF last = NULL THEN k[p].st \in {"LOCKED", "DISK"}
                    ELSE IF Ord(c, p) <= Ord(c, last) THEN k[p].st \in {"LOCKED", "DISK"}
                    ELSE k[p].st \in {"MEM", "DISK", "READING"}}

\* __rec_excl_clear(session, c, last) is called, runs to its end, and is
\* called once more with the same arguments on what it left.
InitClear ==
    /\ \E c \in {1, 2}, last \in OrigPages \cup {NULL} :
         /\ last # NULL => last \in Subtree(c)
         /\ \E k \in ClearTrees(c, last) :
              /\ InitTree(k, {}, [r \in Refs |-> OldAddr(r, TRUE)], OldAddr(RootOrig, FALSE))
              /\ ev = [s \in Evictors |->
                         IF s = "e1"
                         THEN StartClear([Request(c, {}) EXCEPT
                                            !.pre = [r \in Refs |-> k[r].st],
                                            !.excl = {r \in Subtree(c) : k[r].st = "LOCKED"}],
                                         c, last)
                         ELSE Idle]
    /\ NoReaders

\* The second call of __rec_excl_clear with the arguments of the first.
excl_clear_again(s) ==
    /\ ev[s].pc = "done"
    /\ ~ev[s].again
    /\ Goto(s, StartClear([ev[s] EXCEPT !.again = TRUE, !.pre = refState],
                          ev[s].page, ev[s].marker))
    /\ UNCHANGED <<refState, refPage, refAddr, pg, btree, hazard, rd, log>>

NextClear ==
    \/ Clear("e1")
    \/ excl_clear_illegal("e1")
    \/ excl_clear_again("e1")

SpecClear == InitClear /\ [][NextClear]_vars

(***************************************************************************)
(* The claims.                                                             *)
(***************************************************************************)
Done(s) == ev[s].pc = "done"

\* How often page p went to __wt_page_out.
OutCount(p) == Cardinality({i \in DOMAIN log.out : log.out[i].page = p})

\* C1 (as claimed), for the calls that fail: when a call of evict without
\* SINGLE returns an error, every ref of the candidate's subtree that the
\* call could lock (the candidate's own, and those in MEM or DISK when the
\* call began) is in MEM or DISK.
C1_NoOrphanLocks ==
    \A s \in Evictors :
      (Done(s) /\ ~Single(s) /\ ev[s].ret # "OK") =>
        \A r \in Subtree(ev[s].page) :
          (r = ev[s].page \/ ev[s].pre[r] \in {"MEM", "DISK"})
             => refState[r] \in {"MEM", "DISK"}

\* C2 (as claimed), for the hazard references whose publish protocol is
\* complete: no page goes to page_out while the hazard slot of a reader that
\* passed the state check contains it.
C2_HazardSafety ==
    \A i \in DOMAIN log.out : log.out[i].holders = {}

\* C3: while __hazard_exclusive has returned 0 on a ref and the evictor has
\* stored no other state into it, no reader has completed the publish
\* protocol on that ref.
C3_Exclusive ==
    \A s \in Evictors : \A r \in ev[s].excl :
      /\ refState[r] = "LOCKED"
      /\ \A q \in Readers : ~(rd[q].pc = "held" /\ rd[q].ref = r)

\* A reader stored its hazard on a ref the evictor holds exclusively and is
\* about to load the state.
C3_Witness ==
    \E r \in ev["e1"].excl, q \in Readers :
      rd[q].pc = "check" /\ rd[q].ref = r /\ hazard[q] = refPage[r]

\* The session has left __rec_review with 0 (line 64) and is at line 67.
PastReview(s) == ev[s].pc = "write"

\* C4 (as claimed): of two sessions evicting the same page, or a page and a
\* page below it, at most one gets past review.
C4_Serialized ==
    \A s, t \in Evictors :
      (s # t /\ ev[s].page # NULL /\ ev[t].page # NULL
             /\ ev[s].page \in Subtree(ev[t].page))
        => ~(PastReview(s) /\ PastReview(t))

\* C5 (as claimed): a page that is SPLIT_MERGE when it goes to page_out is
\* never the page the discard was started on.
C5_MergeSplitSanctity ==
    \A i \in DOMAIN log.out :
      log.out[i].rec_flags = "SPLIT_MERGE" => log.out[i].root # log.out[i].page

\* A call on a page other than the root that returned 0.
NonRootOK(s) ==
    Done(s) /\ ev[s].ret = "OK" /\ OrigParent(ev[s].page) # NULL

\* The three commits of the claim, on the parent's ref of the candidate.
CleanEvicted(s) ==
    LET r == ev[s].page
    IN refState[r] = "DISK" /\ refPage[r] = NULL /\ refAddr[r] = ev[s].preaddr[r]

SplitCommitted(s) ==
    LET r == ev[s].page
    IN /\ refState[r] = "MEM"
       /\ pg[r].modify.split # NULL
       /\ refPage[r] = pg[r].modify.split

ReplaceCommitted(s) ==
    LET r == ev[s].page
    IN /\ refState[r] = "DISK"
       /\ refPage[r] = NULL
       /\ pg[r].modify.replace # NullAddr
       /\ refAddr[r] = pg[r].modify.replace

\* The candidate was not evicted: its ref is in MEM and references it still.
NotEvicted(s) ==
    LET r == ev[s].page
    IN /\ refState[r] = "MEM" /\ refPage[r] = r /\ pg[r].mem = "live"
       /\ refAddr[r] = ev[s].preaddr[r]

ExactlyOne(S) == Cardinality({b \in S : b[2]}) = 1

\* C6 (as claimed): after a call on a non-root page that returned OK the
\* parent's ref shows exactly one of the clean eviction, the split commit and
\* the replace commit.
C6_ThreeCommits ==
    \A s \in Evictors :
      NonRootOK(s) =>
        ExactlyOne({<<1, CleanEvicted(s)>>, <<2, SplitCommitted(s)>>,
                    <<3, ReplaceCommitted(s)>>})

\* C6 (amended): after a call on a non-root page that returned OK the
\* parent's ref shows exactly one of the clean eviction, the split commit,
\* the replace commit, and the page kept in memory (ref in MEM, still
\* referencing the candidate), which is what a SPLIT_MERGE candidate and an
\* EMPTY reconciliation leave.
C6_FourOutcomes ==
    \A s \in Evictors :
      NonRootOK(s) =>
        /\ ExactlyOne({<<1, CleanEvicted(s)>>, <<2, SplitCommitted(s)>>,
                       <<3, ReplaceCommitted(s)>>, <<4, NotEvicted(s)>>})
        /\ NotEvicted(s) <=>
             (pg[ev[s].page].rec_flags \in {"SPLIT_MERGE", "EMPTY"})

\* A page was replaced: the new address is in the parent's ref, over an old one.
C6_Witness ==
    /\ NonRootOK("e1")
    /\ ReplaceCommitted("e1")
    /\ ev["e1"].preaddr[ev["e1"].page] # NullAddr

\* Every write but the last came out SPLIT.
SplitsThenLast ==
    \A i \in 1..(Len(log.writes) - 1) : log.writes[i].outcome = "SPLIT"

\* C7: the eviction of the root always returns; every write of the root
\* update but the last came out SPLIT (each SPLIT is followed by one more
\* write), every write is of another page, and when the call has returned OK
\* the last write did not come out SPLIT.
C7_RootSplitConverges ==
    /\ [](SplitsThenLast)
    /\ [](\A i, j \in DOMAIN log.writes : log.writes[i].page = log.writes[j].page => i = j)
    /\ []((Done("e1") /\ ev["e1"].ret = "OK" /\ log.writes # << >>)
             => log.writes[Len(log.writes)].outcome # "SPLIT")
    /\ <>Done("e1")

\* The root split, the new root split again, and the third root came out empty.
C7_Witness ==
    /\ Done("e1") /\ ev["e1"].ret = "OK"
    /\ Len(log.writes) = MaxSplit + 1
    /\ log.writes[1].page = RootOrig
    /\ log.writes[Len(log.writes)].outcome = "EMPTY"

\* A dirty root (the first write is of the root) whose eviction returned 0.
RootDirtyOK(s) ==
    /\ Done(s) /\ ev[s].ret = "OK" /\ ev[s].page = RootOrig
    /\ log.writes # << >>
    /\ log.writes[1].page = RootOrig

\* C8: when the dirty root's eviction returns OK after writes whose last
\* outcome is REPLACE or EMPTY, every earlier outcome was SPLIT and each
\* write after the first was of the page the split before it created;
\* root_page is null; root_addr is the last REPLACE output (and root_update
\* is set), or null after EMPTY; the root address there was before has gone
\* to bm_free exactly once; each page written has gone to page_out exactly
\* once.
C8_DirtyRoot ==
    \A s \in Evictors :
      LET W == log.writes
          n == Len(W)
      IN (RootDirtyOK(s) /\ W[n].outcome \in {"REPLACE", "EMPTY"}) =>
           /\ \A i \in 1..(n - 1) :
                /\ W[i].outcome = "SPLIT"
                /\ W[i + 1].page = pg[W[i].page].modify.split
           /\ btree.root_page = NULL
           /\ W[n].outcome = "REPLACE" =>
                /\ btree.root_addr = RecAddr(n)
                /\ btree.root_addr = pg[W[n].page].modify.replace
                /\ btree.root_update
           /\ W[n].outcome = "EMPTY" => btree.root_addr = NullAddr
           /\ log.bm_free = IF log.root0 # NullAddr THEN <<log.root0>> ELSE << >>
           /\ \A i \in 1..n : OutCount(W[i].page) = 1

\* The root split twice and was then replaced, over an older root address.
C8_Witness ==
    /\ RootDirtyOK("e1")
    /\ Len(log.writes) = MaxSplit + 1
    /\ log.writes[Len(log.writes)].outcome = "REPLACE"
    /\ log.root0 # NullAddr

\* C9: once the walk has found a child ref in READING or LOCKED there is no
\* call of rec_write or of page_out, and when the call returns it returns the
\* error of line 392 (the spec's BUSY), every ref has the state it had before
\* the call and the candidate's ref is in MEM.
C9_BusyChild ==
    \A s \in Evictors :
      ev[s].blocked =>
        /\ log.writes = << >>
        /\ log.out = << >>
        /\ Done(s) =>
             /\ ev[s].ret = "WT_ERROR"
             /\ refState = [ev[s].pre EXCEPT ![ev[s].page] = "MEM"]
             /\ refPage = [r \in Refs |-> IF ev[s].pre[r] \in {"MEM", "LOCKED"} THEN r ELSE NULL]

\* The busy child was found below a child that had been locked already.
C9_Witness ==
    /\ Done("e1") /\ ev["e1"].blocked /\ ~Single("e1")
    /\ ev["e1"].last_page \notin {NULL, ev["e1"].page}

\* The one write of a call was of the candidate and came out EMPTY.
EmptyWrite(s) ==
    log.writes = <<[page |-> ev[s].page, outcome |-> "EMPTY", by |-> s]>>

\* C10: when the reconciler returns EMPTY for a non-root candidate of a call
\* without SINGLE, the call returns OK, no page goes to page_out, the
\* candidate's ref is in MEM and references the candidate, and so is every
\* ref below it that was in MEM before the call; the others are as they were.
C10_EmptyKept ==
    \A s \in Evictors :
      (Done(s) /\ ~Single(s) /\ OrigParent(ev[s].page) # NULL /\ EmptyWrite(s)) =>
        /\ ev[s].ret = "OK"
        /\ log.out = << >>
        /\ refState = ev[s].pre
        /\ refState[ev[s].page] = "MEM"
        /\ refPage[ev[s].page] = ev[s].page
        /\ pg[ev[s].page].mem = "live"

\* The candidate had a child that review locked.
C10_Witness ==
    /\ Done("e1") /\ ~Single("e1") /\ EmptyWrite("e1")
    /\ ev["e1"].page = 2
    /\ ev["e1"].last_page = 4
    /\ refState[4] = "MEM"

\* The one write of a call was of the candidate and came out REPLACE.
ReplaceWrite(s) ==
    log.writes = <<[page |-> ev[s].page, outcome |-> "REPLACE", by |-> s]>>

\* C11: when the reconciler returns REPLACE for a dirty non-root candidate
\* and the call returns OK, the parent's ref holds the address and size the
\* reconciler produced, its page is null and its state DISK, the candidate
\* went to page_out once, and the old address was freed if and only if it
\* was non-null and allocated outside the parent's page image.
C11_ReplaceCommit ==
    \A s \in Evictors :
      (NonRootOK(s) /\ ReplaceWrite(s)) =>
        LET c == ev[s].page
            old == ev[s].preaddr[c]
        IN /\ refAddr[c] = RecAddr(1)
           /\ refAddr[c] = pg[c].modify.replace
           /\ refPage[c] = NULL
           /\ refState[c] = "DISK"
           /\ OutCount(c) = 1
           /\ pg[c].mem = "freed"
           /\ log.freed = IF old # NullAddr /\ wt_off_page(old) THEN <<old>> ELSE << >>

\* A replace commit over an old address lying inside the parent's image:
\* the old address was not freed.
C11_Witness ==
    /\ NonRootOK("e1") /\ ReplaceWrite("e1")
    /\ ev["e1"].preaddr[ev["e1"].page] = OldAddr(ev["e1"].page, TRUE)
    /\ log.freed = << >>

\* The candidate was not modified when the call began.
WasClean(s) == ~ev[s].prepage.modified

Waiting(s) == ev[s].pc = "hx_copy" /\ Force(s)

\* A copy taken now holds the page of the ref being requested.
Conflict(s) == hazard_found(refPage[ev[s].hxref], hazard_copy)

\* C13, the steps: with WAIT the session never reaches the store of
\* WT_REF_MEM of line 597; while it waits the ref stays WT_REF_LOCKED and it
\* leaves only with the request granted, on a copy that does not hold the
\* page.  Without WAIT the first copy decides: a copy that holds the page
\* leads to the store of WT_REF_MEM and the return of 1.
WaitSteps(s) ==
    /\ Force(s) => ev'[s].pc # "hx_unlock"
    /\ (Waiting(s) /\ ev'[s] # ev[s]) =>
          ~Conflict(s) /\ ev'[s] = AfterExclusive(ev[s])
    /\ Waiting(s) => refState'[ev[s].hxref] = "LOCKED" /\ refState[ev[s].hxref] = "LOCKED"
    /\ (ev[s].pc = "hx_copy" /\ ~Force(s) /\ ev'[s] # ev[s]) =>
          IF Conflict(s) THEN ev'[s] = [ev[s] EXCEPT !.pc = "hx_unlock"]
          ELSE ev'[s] = AfterExclusive(ev[s])
    /\ (ev[s].pc = "hx_unlock" /\ ev'[s] # ev[s]) =>
          /\ refState'[ev[s].hxref] = "MEM"
          /\ ev'[s].ret = "1"
          /\ ev'[s].pc \in {"done", "review_fail"}

\* C13 as stated: the steps above, and, every reader that stores a hazard
\* reference going on to clear it, a request that waits is granted.
C13_WaitReturns ==
    /\ [][WaitSteps("e1")]_vars
    /\ Waiting("e1") ~> ~Waiting("e1")

\* C13 amended: the steps above, and a request does not wait for ever on a
\* page that, from some moment on, no copy of the hazard array would hold.
C13_WaitReturnsOnceClear ==
    /\ [][WaitSteps("e1")]_vars
    /\ []<>(~Waiting("e1") \/ Conflict("e1"))

\* C13 witness: the request waits, the ref is locked, and a reader that
\* passed its check before the lock still holds the page.
C13_Witness ==
    /\ Waiting("e1") /\ Conflict("e1")
    /\ refState[ev["e1"].hxref] = "LOCKED"
    /\ \E r \in Readers : rd[r].pc = "held" /\ hazard[r] = refPage[ev["e1"].hxref]

\* The steps of the commit: the update of the parent or of the root, lines
\* 76-90, with the functions it calls.
CommitPcs == {"update", "pcu_state", "pcu_page", "pdu_replace", "pdu_split", "rdu"}

\* C14: in a call with WT_REC_SINGLE no step leads into __hazard_exclusive
\* (no store of WT_REF_LOCKED, no copy of the hazard array) or into
\* __rec_excl_clear, whether the call succeeds or fails; a ref field changes
\* only in a step of the commit and only in the candidate's ref, and the
\* root fields of the btree change only in a step of the commit.
SingleSteps(s) ==
    Single(s) =>
      /\ ev'[s].pc \notin {"hx_lock", "hx_copy", "hx_unlock", "clr_store", "clr_walk"}
      /\ \A r \in Refs :
           /\ refState'[r] = "LOCKED" => refState[r] = "LOCKED"
           /\ <<refState'[r], refPage'[r], refAddr'[r]>> # <<refState[r], refPage[r], refAddr[r]>>
                 => r = pg[ev[s].page].ref /\ ev[s].pc \in CommitPcs
      /\ btree' # btree => ev[s].pc \in CommitPcs /\ WT_PAGE_IS_ROOT(ev[s].page)
      /\ hazard' = hazard

C14_SingleSkips == [][SingleSteps("e1")]_vars

\* C14 witness: a call with WT_REC_SINGLE on internal page 2 has walked its
\* subtree, merged its child, committed and returned 0.
C14_Witness ==
    /\ Single("e1") /\ Done("e1") /\ ev["e1"].page = 2
    /\ ev["e1"].ret = "OK" /\ refState[2] = "DISK" /\ OutCount(4) = 1

\* C15, the steps: a store that releases a ref as WT_REF_DISK finds its page
\* pointer NULL and its address in place already, the store of WT_REF_MEM
\* of a split commit finds the split page in the ref already, and once
\* released the ref keeps that page pointer.
PublishSteps(s) ==
    \A r \in Refs :
      /\ (refState[r] # "DISK" /\ refState'[r] = "DISK") =>
            refPage[r] = NULL /\ refPage'[r] = NULL /\ refAddr'[r] = refAddr[r]
      /\ (ev[s].pc = "pdu_split" /\ ev'[s] # ev[s] /\ r = pg[ev[s].page].ref) =>
            /\ refState'[r] = "MEM"
            /\ refPage[r] = pg[ev[s].page].modify.split /\ refPage'[r] = refPage[r]
      /\ refState[r] = "DISK" => refPage'[r] = NULL
      /\ refPage[r] \in NewPages => refPage'[r] = refPage[r]

AcceptableChild(p) ==
    \/ pg[p].rec_flags = "SPLIT_MERGE"
    \/ ~pg[p].modified /\ pg[p].rec_flags \in {"SPLIT", "EMPTY"}

RECURSIVE WalkOK(_, _)
\* Every child ref below p, as it was when the call began, is on disk, or is
\* in memory with an acceptable page whose own children are so in turn.
WalkOK(s, p) ==
    \A i \in DOMAIN Children(p) :
      LET c == Children(p)[i]
      IN IF ev[s].pre[c] = "DISK" THEN TRUE
         ELSE IF ev[s].pre[c] = "MEM" THEN AcceptableChild(c) /\ WalkOK(s, c)
         ELSE FALSE

RECURSIVE InMemoryBelow(_, _)
\* p and its descendants reached through refs that were in memory when the
\* call began.
InMemoryBelow(s, p) ==
    {p} \cup UNION {InMemoryBelow(s, Children(p)[i]) :
                      i \in {j \in DOMAIN Children(p) : ev[s].pre[Children(p)[j]] = "MEM"}}

LockedPrefix(s) ==
    {p \in Subtree(ev[s].page) :
       /\ ev[s].pre[p] = "LOCKED"
       /\ ev[s].marker # NULL => Ord(ev[s].page, p) <= Ord(ev[s].page, ev[s].marker)}

RECURSIVE NotOnDiskBelow(_)
\* p and the pages reached from it through child refs that are not
\* WT_REF_DISK.
NotOnDiskBelow(p) ==
    {p} \cup UNION {NotOnDiskBelow(refPage[Children(p)[i]]) :
                      i \in {j \in DOMAIN Children(p) : refState[Children(p)[j]] # "DISK"}}

\* The pages whose tracked objects were resolved.
Wrapped == {log.wrapup[i] : i \in DOMAIN log.wrapup}

\* The pages that went to __wt_page_out in the discard that began at r.
OutPages(r) == {log.out[i].page : i \in {j \in DOMAIN log.out : log.out[j].root = r}}

\* Entry i of the log is the one page of a clean update, which calls
\* __rec_discard_page on the candidate and not __rec_discard.
PageOnly(i) == log.out[i].page = log.out[i].root /\ log.out[i].rec_flags = "NONE"

\* C18: no page goes to __wt_page_out twice; a discard that has reached its
\* own page has passed exactly the pages not-on-disk below it; every page
\* passed lies below the discard's page through refs that are not on disk,
\* and follows its not-on-disk children; a page goes to __wt_page_out with
\* its tracked objects resolved if and only if it has a modify structure,
\* and no page's objects are resolved twice.
C18_RecursiveDiscard ==
    /\ \A p \in Pages : OutCount(p) <= 1
    /\ \A i \in DOMAIN log.out :
         LET p == log.out[i].page
             r == log.out[i].root
         IN /\ p \in NotOnDiskBelow(r)
            /\ (p = r /\ ~PageOnly(i)) => OutPages(r) = NotOnDiskBelow(r)
            /\ ~PageOnly(i) =>
                  \A k \in DOMAIN Children(p) :
                    refState[Children(p)[k]] # "DISK" =>
                      \E j \in 1..(i - 1) : log.out[j].page = refPage[Children(p)[k]]
            /\ pg[p].modify.set <=> p \in Wrapped
    /\ \A i, j \in DOMAIN log.wrapup : log.wrapup[i] = log.wrapup[j] => i = j
    /\ \A p \in Wrapped : pg[p].modify.set

\* C18 witness: the discard of root page 1 passed page 4, then page 2, then
\* page 1, resolved the tracked objects of page 1, and left alone page 3,
\* whose ref is on disk.
C18_Witness ==
    /\ Len(log.out) >= 3
    /\ log.out[1].page = 4 /\ log.out[2].page = 2 /\ log.out[3].page = 1
    /\ log.out[3].root = 1 /\ 1 \in Wrapped /\ refState[3] = "DISK"

\* The transitions of a ref's state the table gives the evictor.
EvictorTransitions == {<<"MEM", "LOCKED">>, <<"LOCKED", "MEM">>, <<"LOCKED", "DISK">>}

\* C19 (as claimed): in a call without SINGLE (with SINGLE no ref is locked
\* and the commit takes the ref from MEM) every step that changes the state
\* of a ref makes one of the evictor's transitions; in particular no step
\* stores a state into a ref that is DISK or READING.
LegalSteps(s) ==
    ~Single(s) =>
      \A r \in Refs :
        refState'[r] # refState[r] => <<refState[r], refState'[r]>> \in EvictorTransitions

C19_LegalTransitions == [][LegalSteps("e1")]_vars

\* C20 (as claimed): when a call without SINGLE has returned an error, the
\* candidate's ref is MEM and references the candidate, no page of the
\* candidate's subtree went to __wt_page_out, no ref in MEM has a NULL page
\* pointer or one to a discarded page, and the btree's root page is not a
\* discarded page.
C20_FailureRestores ==
    \A s \in Evictors :
      (Done(s) /\ ~Single(s) /\ ev[s].ret # "OK") =>
        LET c == ev[s].page
        IN /\ refState[c] = "MEM" /\ refPage[c] = c
           /\ \A p \in Subtree(c) : OutCount(p) = 0
           /\ \A r \in Refs :
                refState[r] = "MEM" => refPage[r] # NULL /\ pg[refPage[r]].mem = "live"
           /\ btree.root_page # NULL => pg[btree.root_page].mem = "live"



\* Session s is inside a call on a page that another session has passed to
\* __wt_page_out: its next step goes through page->ref or the page's slots.
WorksOnDiscarded(s) ==
    /\ ev[s].pc \notin {"off", "idle", "done", "crashed"}
    /\ \E i \in DOMAIN log.out : log.out[i].page = ev[s].page /\ log.out[i].by # s

\* C21 (as claimed): with two sessions evicting the same page or a page and
\* one below it, no page goes to __wt_page_out twice, and no session works
\* on a page another session has passed to __wt_page_out.
C21_NoDoubleDiscard ==
    /\ \A p \in Pages : OutCount(p) <= 1
    /\ \A s \in Evictors : ~WorksOnDiscarded(s)

====
